---- MODULE Spec2Model ----
(***************************************************************************)
(* Model of the falling-sand grid of examples/sand/grid.rs (struct Grid):  *)
(* the cell array `data`, the pixel buffer `rgba`, the dirty flag          *)
(* `changed`, and the operations draw_sand, draw_sand_radius, simulate and *)
(* update_texture.                                                         *)
(*                                                                         *)
(* Logical coordinates (x, y) have y growing upward; storage inverts y.    *)
(* f32 radii are modelled in halves (radius2 = 2 * radius): truncation and *)
(* rounding of a radius depend only on its integer part and on whether its *)
(* fraction is below .5 or not.  Random samples are modelled in tenths.    *)
(*                                                                         *)
(* The second part models the event loop of src/glass.rs (Glass::run): the *)
(* closure handed to event_loop.run, one event at a time, with the         *)
(* callbacks of the app in the order the closure makes them.               *)
(***************************************************************************)
EXTENDS Integers, Sequences, FiniteSets, TLC

\* ------------------------------------------------------------------ bounds
\* Grid sizes, number of calls (and of painting calls among them) and radius
\* (in halves) of the API exploration
MaxWidth == 2
MaxHeight == 2
MaxCalls == 3
MaxPaints == 1
MaxRadius2 == 2
\* Grid sizes of the explorations of one operation (draw_sand_radius alone,
\* simulate alone), the radius (in halves) of the first, the number of grains
\* of the second
MaxGridWidth == 3
MaxGridHeight == 3
MaxDiscRadius2 == 5
MaxGrains == 3
\* Windows ever created and events delivered in the exploration of the loop
MaxWindows == 2
MaxEvents == 3

\* Largest grid of the specification of repeated simulate() calls
MaxPileWidth == 3
MaxPileHeight == 3

VARIABLES
    width,      \* Grid.width
    height,     \* Grid.height
    data,       \* Grid.data: storage index -> Sand
    rgba,       \* Grid.rgba: pixel offset (row * width + column) -> pixel
    changed,    \* Grid.changed
    texture,    \* contents of the GPU texture: what write_texture last copied
    uploads,    \* number of queue.write_texture calls so far
    pc,         \* "idle", "simulate" while the scan of simulate() runs, "panic"
    scan,       \* number of cells the running simulate() has already scanned
    drawn,      \* the samples rand::random gave the current simulate(), in order
    startData,  \* history: `data` when the current/last simulate() was called
    startChanged, \* history: `changed` when that simulate() was called
    track,      \* history: storage index -> <<ox, oy, hops>> of the grain there
    lastStep,   \* history: what the last scan step of simulate() did and touched
    lastOp,     \* history: the last call made on the grid
    lastArgs,   \* history: the arguments of the last call, where recorded
    syncsInRow, \* history: how many update_texture calls were the last calls
    calls,      \* calls made on the grid: [paint, other |-> count]
    windows,    \* GlassContext.windows: the ids in the order of the IndexMap
    focused,    \* GlassWindow::is_focused of each window id
    exit_on_esc,    \* GlassWindow::exit_on_esc of each window id
    exit,       \* GlassContext.exit
    remove_windows,         \* the local remove_windows of Glass::run
    request_window_close,   \* the local request_window_close of Glass::run
    control_flow,   \* "poll" or "exit"
    at,         \* where the closure stands: "wait" between two events
    cursor,     \* position of the render loop in `windows`
    log,        \* history: calls made for the current/last event, in order
    asked,      \* history: ids pushed to remove_windows so far
    created,    \* number of windows created so far (ids are never reused)
    delivered   \* number of events delivered so far

gridVars == <<width, height, data, rgba, changed, texture, uploads, pc, scan,
              drawn, startData, startChanged, track, lastStep, lastOp,
              lastArgs, syncsInRow, calls>>

loopVars == <<windows, focused, exit_on_esc, exit, remove_windows,
              request_window_close, control_flow, at, cursor, log, asked,
              created, delivered>>

vars == <<gridVars, loopVars>>

\* ------------------------------------------------------------------ cells
SandTypes == {"Empty", "Sand"}

Colors == {"empty", "sandA", "sandB"}

\* SandType::is_empty
is_empty(t) == t = "Empty"

\* Sand::empty()
EmptySand == [sand |-> "Empty", color |-> "empty"]

\* Sand::from_type(sand, pos): a fresh cell of the material, its colour
\* varying with the position
from_type(t, x, y) ==
    [sand |-> t,
     color |-> IF is_empty(t) THEN "empty"
               ELSE IF (x + y) % 2 = 0 THEN "sandA" ELSE "sandB"]

\* The cells a caller can hand to draw_sand
Sands == {EmptySand, [sand |-> "Sand", color |-> "sandA"],
          [sand |-> "Sand", color |-> "sandB"]}

\* Rgba::to_srgba_unmultiplied: colour -> 4 bytes
to_srgba_unmultiplied(c) ==
    CASE c = "empty" -> <<0, 0, 0, 0>>
      [] c = "sandA" -> <<194, 178, 128, 255>>
      [] c = "sandB" -> <<168, 143, 89, 255>>

\* RgbaImage::new: every pixel zeroed
BlankPixel == <<0, 0, 0, 0>>

NumCells == width * height

Cells == 0 .. NumCells - 1

\* index without the inversion of the y axis
index_NoFlip(x, y) == y * width + x

\* Grid::index
index(x, y) == (height - y - 1) * width + x

\* RgbaImage::put_pixel addresses pixel (column, row) at row * width + column
PixelOffset(col, row) == row * width + col

\* draw_sand checking only the upper bounds, as for unsigned coordinates
draw_sand_NoLowerBound(g, x, y, sand) ==
    IF x < width /\ y < height
    THEN [data |-> [g.data EXCEPT ![index(x, y)] = sand],
          rgba |-> [g.rgba EXCEPT ![PixelOffset(x, height - y - 1)] =
                                      to_srgba_unmultiplied(sand.color)],
          changed |-> TRUE]
    ELSE g

\* draw_sand writing the pixel at row y, not at the inverted row
draw_sand_NoRowFlip(g, x, y, sand) ==
    IF x >= 0 /\ x < width /\ y >= 0 /\ y < height
    THEN [data |-> [g.data EXCEPT ![index(x, y)] = sand],
          rgba |-> [g.rgba EXCEPT ![PixelOffset(x, y)] =
                                      to_srgba_unmultiplied(sand.color)],
          changed |-> TRUE]
    ELSE g

\* draw_sand leaving the dirty flag alone
draw_sand_NoDirty(g, x, y, sand) ==
    IF x >= 0 /\ x < width /\ y >= 0 /\ y < height
    THEN [data |-> [g.data EXCEPT ![index(x, y)] = sand],
          rgba |-> [g.rgba EXCEPT ![PixelOffset(x, height - y - 1)] =
                                      to_srgba_unmultiplied(sand.color)],
          changed |-> g.changed]
    ELSE g

\* Grid::draw_sand on the grid value g = [data, rgba, changed]
draw_sand(g, x, y, sand) ==
    IF x >= 0 /\ x < width /\ y >= 0 /\ y < height
    THEN [data |-> [g.data EXCEPT ![index(x, y)] = sand],
          rgba |-> [g.rgba EXCEPT ![PixelOffset(x, height - y - 1)] =
                                      to_srgba_unmultiplied(sand.color)],
          changed |-> TRUE]
    ELSE g

Grid == [data |-> data, rgba |-> rgba, changed |-> changed]

SetGrid(result) ==
    \E g \in {result} :
       /\ data' = g.data
       /\ rgba' = g.rgba
       /\ changed' = g.changed

\* ------------------------------------------------------------ Grid::new
NoCalls == [paint |-> 0, other |-> 0]

NoStep == [kind |-> "none"]

NewGrid(maxWidth, maxHeight) ==
    /\ width \in 0 .. maxWidth
    /\ height \in 0 .. maxHeight
    /\ data = [i \in Cells |-> EmptySand]
    /\ rgba = [i \in Cells |-> BlankPixel]
    /\ changed = FALSE
    /\ texture = [i \in Cells |-> BlankPixel]
    /\ uploads = 0
    /\ pc = "idle"
    /\ scan = 0
    /\ drawn = <<>>
    /\ startData = <<>>
    /\ startChanged = FALSE
    /\ track = <<>>
    /\ lastStep = NoStep
    /\ lastOp = "new"
    /\ lastArgs = <<>>
    /\ syncsInRow = 0
    /\ calls = NoCalls

\* No event loop runs: the grid is driven by direct calls
NoLoop ==
    /\ windows = <<>>
    /\ focused = <<>>
    /\ exit_on_esc = <<>>
    /\ exit = FALSE
    /\ remove_windows = <<>>
    /\ request_window_close = FALSE
    /\ control_flow = "poll"
    /\ at = "wait"
    /\ cursor = 0
    /\ log = <<>>
    /\ asked = {}
    /\ created = 0
    /\ delivered = 0

Init == NewGrid(MaxWidth, MaxHeight) /\ NoLoop

\* The history of the last simulate() ends with the next call on the grid
ForgetSimulate ==
    /\ scan' = 0
    /\ drawn' = <<>>
    /\ startData' = <<>>
    /\ startChanged' = FALSE
    /\ track' = <<>>
    /\ lastStep' = NoStep

\* ------------------------------------------------------ Grid::draw_sand
DrawSand(x, y, sand) ==
    /\ pc = "idle"
    /\ SetGrid(draw_sand(Grid, x, y, sand))
    /\ lastOp' = "draw_sand"
    /\ syncsInRow' = 0
    /\ ForgetSimulate
    /\ UNCHANGED <<width, height, texture, uploads, pc>>

\* -------------------------------------------------- Grid::update_texture
\* update_texture uploading without clearing the dirty flag
UpdateTexture_NoClear ==
    /\ pc = "idle"
    /\ IF changed
       THEN /\ texture' = rgba
            /\ uploads' = uploads + 1
            /\ changed' = changed
       ELSE UNCHANGED <<texture, uploads, changed>>
    /\ lastOp' = "update_texture"
    /\ syncsInRow' = syncsInRow + 1
    /\ ForgetSimulate
    /\ UNCHANGED <<width, height, data, rgba, pc>>

UpdateTexture ==
    /\ pc = "idle"
    /\ IF changed
       THEN /\ texture' = rgba
            /\ uploads' = uploads + 1
            /\ changed' = FALSE
       ELSE UNCHANGED <<texture, uploads, changed>>
    /\ lastOp' = "update_texture"
    /\ syncsInRow' = syncsInRow + 1
    /\ ForgetSimulate
    /\ UNCHANGED <<width, height, data, rgba, pc>>

\* ------------------------------------------------ Grid::draw_sand_radius
\* `radius as i32`: truncation toward zero
TruncF32(radius2) ==
    IF radius2 >= 0 THEN radius2 \div 2 ELSE -((-radius2) \div 2)

\* The radius truncated where it should be rounded
RoundF32_Trunc(radius2) == radius2 \div 2

\* f32::round: nearest integer, halves away from zero
RoundF32(radius2) ==
    IF radius2 >= 0 THEN (radius2 + 1) \div 2 ELSE -((1 - radius2) \div 2)

\* Vec2::distance(..).round() for integer points: the k with
\* k - 1/2 <= sqrt(dx^2 + dy^2) < k + 1/2 (the square root of an integer is
\* never an exact half)
RoundDistance(px, py, cx, cy) ==
    LET n == (px - cx) * (px - cx) + (py - cy) * (py - cy)
    IN  CHOOSE k \in 0 .. n :
          /\ 4 * n < (2 * k + 1) * (2 * k + 1)
          /\ k > 0 => (2 * k - 1) * (2 * k - 1) <= 4 * n

\* The side of the scanned box y_start..=y_end (x_start..=x_end)
BoxSide(radius2) ==
    IF TruncF32(radius2) >= 0 THEN 2 * TruncF32(radius2) + 1 ELSE 0

\* The loops of draw_sand_radius from the k-th position of the box on, rows
\* outermost
RECURSIVE PaintBox(_, _, _, _, _, _)
PaintBox(g, x, y, sand, radius2, k) ==
    LET side == BoxSide(radius2)
        pixel_y == (y - TruncF32(radius2)) + (k \div side)
        pixel_x == (x - TruncF32(radius2)) + (k % side)
    IN  IF k >= side * side THEN g
        ELSE PaintBox(
                 IF RoundDistance(pixel_x, pixel_y, x, y) < RoundF32(radius2)
                 THEN draw_sand(g, pixel_x, pixel_y,
                                from_type(sand, pixel_x, pixel_y))
                 ELSE g,
                 x, y, sand, radius2, k + 1)

draw_sand_radius(g, x, y, sand, radius2) == PaintBox(g, x, y, sand, radius2, 0)

DrawSandRadius(x, y, sand, radius2) ==
    /\ pc = "idle"
    /\ SetGrid(draw_sand_radius(Grid, x, y, sand, radius2))
    /\ lastOp' = "draw_sand_radius"
    /\ syncsInRow' = 0
    /\ ForgetSimulate
    /\ UNCHANGED <<width, height, texture, uploads, pc>>

\* ------------------------------------------------------- Grid::simulate
\* rand::random::<f32>() in tenths: 0.5 and 0.6, the two sides of `p > 0.5`
Samples == {5, 6}

\* The loop body drew no sample
NoSample == -1

\* The rows scanned from the top down
ScanY_TopDown(k) == height - 1 - (k \div width)

\* The loops `for y in 0..height { for x in 0..width`: the cell scanned k-th
ScanY(k) == k \div width

ScanX(k) == k % width

\* A move that copies the cell without emptying the source
swap_NoClear(g, x, y, tx, ty, curr) == draw_sand(g, tx, ty, curr)

\* The two draw_sand calls of a move: the source is emptied, the destination
\* gets the cell
swap(g, x, y, tx, ty, curr) ==
    draw_sand(draw_sand(g, x, y, EmptySand), tx, ty, curr)

\* The left branch taken from 0.5 on
TriesLeft_FromHalf(x, p) == p >= 5 /\ x - 1 >= 0

\* The left branch taken without the check for column 0
TriesLeft_NoEdge(x, p) == p > 5

\* `p > 0.5 && x as i32 - 1 >= 0`
TriesLeft(x, p) == p > 5 /\ x - 1 >= 0

\* Variant of TriesRight that stops one column before the right edge
TriesRight_BeforeEdge(x) == x + 1 < width - 1

\* `x as i32 + 1 < self.width as i32`
TriesRight(x) == x + 1 < width

\* One pass of the loop body on the grid value g for the cell (x, y) and the
\* sample p (read only when the cell below is occupied).  The result names the
\* branch taken next to the new grid value, and `touched` holds the
\* coordinates the pass handed to self.index or to draw_sand.
simulate_cell(g, x, y, p) ==
    LET curr == g.data[index(x, y)]
        here == {<<x, y>>}
        below == {<<x, y>>, <<x, y - 1>>}
        left == below \cup {<<x - 1, y - 1>>}
        right == below \cup {<<x + 1, y - 1>>}
    IN  IF ~is_empty(curr.sand) /\ y - 1 >= 0
        THEN IF is_empty(g.data[index(x, y - 1)].sand)
             THEN [kind |-> "below", tx |-> x, ty |-> y - 1, touched |-> below,
                   g |-> swap(g, x, y, x, y - 1, curr)]
             ELSE IF TriesLeft(x, p)
                  THEN IF is_empty(g.data[index(x - 1, y - 1)].sand)
                       THEN [kind |-> "left", tx |-> x - 1, ty |-> y - 1,
                             touched |-> left,
                             g |-> swap(g, x, y, x - 1, y - 1, curr)]
                       ELSE [kind |-> "stay", tx |-> x, ty |-> y,
                             touched |-> left, g |-> g]
                  ELSE IF TriesRight(x)
                       THEN IF is_empty(g.data[index(x + 1, y - 1)].sand)
                            THEN [kind |-> "right", tx |-> x + 1, ty |-> y - 1,
                                  touched |-> right,
                                  g |-> swap(g, x, y, x + 1, y - 1, curr)]
                            ELSE [kind |-> "stay", tx |-> x, ty |-> y,
                                  touched |-> right, g |-> g]
                       ELSE [kind |-> "stay", tx |-> x, ty |-> y,
                             touched |-> below, g |-> g]
        ELSE [kind |-> "skip", tx |-> x, ty |-> y, touched |-> here, g |-> g]

\* Whether the loop body draws a sample for the cell (x, y)
DrawsSample(x, y) ==
    /\ ~is_empty(data[index(x, y)].sand)
    /\ y - 1 >= 0
    /\ ~is_empty(data[index(x, y - 1)].sand)

\* History of the grains: the grain moved from (x, y) to (tx, ty)
Moved(x, y, tx, ty) ==
    IF <<tx, ty>> = <<x, y>> THEN track
    ELSE LET t == track[index(x, y)]
         IN  [track EXCEPT ![index(x, y)] = <<>>,
                           ![index(tx, ty)] =
                               IF t = <<>> THEN t
                               ELSE <<t[1], t[2], t[3] + 1>>]

\* simulate() marking the grid dirty whether or not a grain moves
Simulate_SetsDirty ==
    /\ pc = "idle"
    /\ pc' = IF NumCells = 0 THEN "idle" ELSE "simulate"
    /\ scan' = 0
    /\ drawn' = <<>>
    /\ startData' = data
    /\ startChanged' = changed
    /\ track' = [i \in Cells |->
                   IF is_empty(data[i].sand) THEN <<>>
                   ELSE <<i % width, height - 1 - (i \div width), 0>>]
    /\ lastStep' = NoStep
    /\ lastOp' = "simulate"
    /\ syncsInRow' = 0
    /\ changed' = TRUE
    /\ UNCHANGED <<width, height, data, rgba, texture, uploads>>

\* simulate() is called: the scan starts at its first cell
Simulate ==
    /\ pc = "idle"
    /\ pc' = IF NumCells = 0 THEN "idle" ELSE "simulate"
    /\ scan' = 0
    /\ drawn' = <<>>
    /\ startData' = data
    /\ startChanged' = changed
    /\ track' = [i \in Cells |->
                   IF is_empty(data[i].sand) THEN <<>>
                   ELSE <<i % width, height - 1 - (i \div width), 0>>]
    /\ lastStep' = NoStep
    /\ lastOp' = "simulate"
    /\ syncsInRow' = 0
    /\ UNCHANGED <<width, height, data, rgba, changed, texture, uploads>>

\* One iteration of the loops of simulate(), drawing the sample p if needed
ScanStep(p) ==
    /\ pc = "simulate"
    /\ \E x \in {ScanX(scan)}, y \in {ScanY(scan)} :
       \E r \in {simulate_cell(Grid, x, y, p)} :
           /\ p \in (IF DrawsSample(x, y) THEN Samples ELSE {NoSample})
           /\ SetGrid(r.g)
           /\ drawn' = IF DrawsSample(x, y) THEN Append(drawn, p) ELSE drawn
           /\ track' = Moved(x, y, r.tx, r.ty)
           /\ lastStep' = [kind |-> r.kind, x |-> x, y |-> y,
                           p |-> p, touched |-> r.touched]
    /\ scan' = scan + 1
    /\ pc' = IF scan + 1 >= NumCells THEN "idle" ELSE "simulate"
    /\ UNCHANGED <<width, height, texture, uploads, startData, startChanged,
                   lastOp, lastArgs, syncsInRow, calls, loopVars>>

\* A call of kind k, within the budget of the exploration
Call(k, A) ==
    /\ calls.paint + calls.other < MaxCalls
    /\ k = "paint" => calls.paint < MaxPaints
    /\ lastArgs' = <<>>
    /\ calls' = [calls EXCEPT ![k] = @ + 1]
    /\ UNCHANGED loopVars
    /\ A

Next ==
    \/ \E x \in -1 .. width, y \in -1 .. height, sand \in Sands :
          Call("paint", DrawSand(x, y, sand))
    \/ \E x \in -1 .. width, y \in -1 .. height, sand \in SandTypes,
          radius2 \in -1 .. MaxRadius2 :
          Call("paint", DrawSandRadius(x, y, sand, radius2))
    \/ Call("other", Simulate)
    \/ \E p \in Samples \cup {NoSample} : ScanStep(p)
    \/ Call("other", UpdateTexture)

Spec == Init /\ [][Next]_vars

\* ------------------------- one draw_sand_radius() on a new or a full grid
\* The grid after painting a fresh grain on each position of a set
RECURSIVE PaintAll(_, _)
PaintAll(g, S) ==
    IF S = {} THEN g
    ELSE LET i == CHOOSE j \in S : TRUE
             x == i % width
             y == i \div width
         IN  PaintAll(draw_sand(g, x, y, from_type("Sand", x, y)), S \ {i})

BlankGrid ==
    [data |-> [i \in Cells |-> EmptySand],
     rgba |-> [i \in Cells |-> BlankPixel],
     changed |-> FALSE]

InitDisc ==
    /\ width \in 0 .. MaxGridWidth
    /\ height \in 0 .. MaxGridHeight
    /\ \E S \in {{}, Cells} :
          \E g \in {PaintAll(BlankGrid, S)} :
             /\ data = g.data
             /\ rgba = g.rgba
             /\ changed = g.changed
    /\ texture = [i \in Cells |-> BlankPixel]
    /\ uploads = 0
    /\ pc = "idle"
    /\ scan = 0
    /\ drawn = <<>>
    /\ startData = <<>>
    /\ startChanged = FALSE
    /\ track = <<>>
    /\ lastStep = NoStep
    /\ lastOp = "new"
    /\ lastArgs = <<>>
    /\ syncsInRow = 0
    /\ calls = NoCalls
    /\ NoLoop

NextDisc ==
    \E x \in -1 .. width, y \in -1 .. height, sand \in SandTypes,
       radius2 \in -3 .. MaxDiscRadius2 :
       /\ lastOp = "new"
       /\ calls' = [calls EXCEPT !.paint = @ + 1]
       /\ lastArgs' = <<x, y, sand, radius2>>
       /\ UNCHANGED loopVars
       /\ DrawSandRadius(x, y, sand, radius2)

DiscSpec == InitDisc /\ [][NextDisc]_vars

\* ------------------------------- one call with arguments of the whole i32
\* i32::MAX and i32::MIN, the limits of the arguments x and y
I32Max == 2147483647

I32Min == -I32Max - 1

\* Builds with overflow checks (debug) and without them (release)
Builds == {"debug", "release"}

\* The i32 operations a + b and a - b leave the range of i32
AddOverflows(a, b) == IF b >= 0 THEN a > I32Max - b ELSE a < I32Min - b

SubOverflows(a, b) == IF b >= 0 THEN a < I32Min + b ELSE a > I32Max + b

\* a + b and a - b without overflow checks: the result modulo 2^32
WrappingAdd(a, b) ==
    IF ~AddOverflows(a, b) THEN a + b
    ELSE IF b >= 0 THEN I32Min + ((a - I32Max) + (b - 1))
    ELSE I32Max + ((a - I32Min) + (b + 1))

WrappingSub(a, b) ==
    IF ~SubOverflows(a, b) THEN a - b
    ELSE IF b >= 0 THEN I32Max + ((a - I32Min) - (b - 1))
    ELSE I32Min + ((a - I32Max) - (b + 1))

\* One of y_start, y_end, x_start, x_end of draw_sand_radius overflows
BoxOverflows(x, y, radius2) ==
    \/ SubOverflows(y, TruncF32(radius2))
    \/ AddOverflows(y, TruncF32(radius2))
    \/ SubOverflows(x, TruncF32(radius2))
    \/ AddOverflows(x, TruncF32(radius2))

\* The loops of draw_sand_radius run no draw_sand: a range start..=end is
\* empty, or no rounded distance is below the rounded radius
PaintsNothing(x, y, radius2) ==
    \/ RoundF32(radius2) <= 0
    \/ WrappingSub(y, TruncF32(radius2)) > WrappingAdd(y, TruncF32(radius2))
    \/ WrappingSub(x, TruncF32(radius2)) > WrappingAdd(x, TruncF32(radius2))

\* draw_sand_radius with the i32 arithmetic of its first four lines: where it
\* overflows, a build with overflow checks panics and a build without them
\* goes on with the wrapped values
DrawSandRadiusI32(x, y, sand, radius2, build) ==
    IF ~BoxOverflows(x, y, radius2)
    THEN DrawSandRadius(x, y, sand, radius2)
    ELSE /\ pc = "idle"
         /\ pc' = IF build = "debug" THEN "panic" ELSE "idle"
         /\ SetGrid(IF build = "debug" \/ PaintsNothing(x, y, radius2)
                    THEN Grid
                    ELSE draw_sand_radius(Grid, x, y, sand, radius2))
         /\ lastOp' = "draw_sand_radius"
         /\ syncsInRow' = 0
         /\ ForgetSimulate
         /\ UNCHANGED <<width, height, texture, uploads>>

\* The arguments tried for x and y: the ends of i32 next to the grid's own
Extremes == {I32Min, I32Min + 1, I32Max - 1, I32Max}

\* The first call on the grid, its arguments recorded
FirstCall(k, args, A) ==
    /\ lastOp = "new"
    /\ calls' = [calls EXCEPT ![k] = @ + 1]
    /\ lastArgs' = args
    /\ UNCHANGED loopVars
    /\ A

NextI32 ==
    \/ \E x \in Extremes \cup (-1 .. width), y \in Extremes \cup (-1 .. height),
          sand \in Sands :
          FirstCall("paint", <<x, y>>, DrawSand(x, y, sand))
    \/ \E x \in Extremes \cup (-1 .. width), y \in Extremes \cup (-1 .. height),
          sand \in SandTypes, radius2 \in -3 .. MaxRadius2, build \in Builds :
          FirstCall("paint", <<x, y, sand, radius2, build>>,
                    DrawSandRadiusI32(x, y, sand, radius2, build))
    \/ FirstCall("other", <<>>, Simulate)
    \/ \E p \in Samples \cup {NoSample} : ScanStep(p)
    \/ FirstCall("other", <<>>, UpdateTexture)

I32Spec == InitDisc /\ [][NextI32]_vars

\* ------------------- simulate() and update_texture() on any grid
\* The grid holds fresh grains on the positions of a set, synced to the
\* texture or not
InitSim ==
    /\ width \in 1 .. MaxGridWidth
    /\ height \in 1 .. MaxGridHeight
    /\ \E S \in SUBSET Cells, synced \in BOOLEAN :
          /\ Cardinality(S) <= MaxGrains
          /\ LET g == PaintAll(BlankGrid, S)
             IN  /\ data = g.data
                 /\ rgba = g.rgba
                 /\ changed = (g.changed /\ ~synced)
                 /\ texture = IF g.changed /\ synced THEN g.rgba
                              ELSE [i \in Cells |-> BlankPixel]
                 /\ uploads = IF g.changed /\ synced THEN 1 ELSE 0
    /\ pc = "idle"
    /\ scan = 0
    /\ drawn = <<>>
    /\ startData = <<>>
    /\ startChanged = FALSE
    /\ track = <<>>
    /\ lastStep = NoStep
    /\ lastOp = "new"
    /\ lastArgs = <<>>
    /\ syncsInRow = 0
    /\ calls = NoCalls
    /\ NoLoop

NextSim ==
    \/ Simulate /\ UNCHANGED <<calls, lastArgs, loopVars>>
    \/ \E p \in Samples \cup {NoSample} : ScanStep(p)
    \/ lastOp = "simulate" /\ UpdateTexture /\ UNCHANGED <<calls, lastArgs, loopVars>>

SimSpec == InitSim /\ [][NextSim]_vars

\* A grid of any size up to MaxPileWidth x MaxPileHeight with up to MaxGrains
\* painted cells, on which simulate() is called again and again
InitPile ==
    /\ width \in 1 .. MaxPileWidth
    /\ height \in 1 .. MaxPileHeight
    /\ \E S \in SUBSET Cells :
          /\ Cardinality(S) <= MaxGrains
          /\ LET g == PaintAll(BlankGrid, S)
             IN  /\ data = g.data
                 /\ rgba = g.rgba
                 /\ changed = g.changed
    /\ texture = [i \in Cells |-> BlankPixel]
    /\ uploads = 0
    /\ pc = "idle"
    /\ scan = 0
    /\ drawn = <<>>
    /\ startData = <<>>
    /\ startChanged = FALSE
    /\ track = <<>>
    /\ lastStep = NoStep
    /\ lastOp = "new"
    /\ lastArgs = <<>>
    /\ syncsInRow = 0
    /\ calls = NoCalls
    /\ NoLoop

\* simulate() after simulate(), nothing painted in between
NextPile ==
    \/ Simulate /\ UNCHANGED <<calls, lastArgs, loopVars>>
    \/ \E p \in Samples \cup {NoSample} : ScanStep(p)

\* The calls keep coming and each loop of simulate() runs to its end; the
\* random source is fair: a sample that would move a grain, and that could be
\* drawn again and again, is drawn at last (rand::random at grid.rs:106 draws
\* each sample independently of the cell and of the samples before it)
PileSpec ==
    /\ InitPile
    /\ [][NextPile]_vars
    /\ WF_vars(NextPile)
    /\ \A p \in Samples : SF_vars(ScanStep(p) /\ data' # data)

\* ------------------------------------------------------------ Glass::run
WindowIds == 1 .. MaxWindows

\* input.virtual_keycode: Some(Escape), Some(another key) or None
Keys == {"Escape", "Other", "None"}

\* The window events the closure tells apart (`empty`: a size of 0 x 0)
WindowEvents ==
    [kind : {"Resized"}, empty : BOOLEAN]
    \cup [kind : {"ScaleFactorChanged", "CloseRequested", "Other"}]
    \cup [kind : {"KeyboardInput"}, key : Keys, pressed : BOOLEAN,
          is_synthetic : BOOLEAN]
    \cup [kind : {"Focused"}, has_focus : BOOLEAN]

\* An entry of the history of calls: a callback or a call on a window (0: none)
Called(name, w) == <<name, w>>

\* The ids of a sequence of windows
Ids(ws) == {ws[i] : i \in 1 .. Len(ws)}

\* IndexMap::remove (swap_remove): the last entry takes the place of the
\* removed one
remove(ws, id) ==
    IF id \notin Ids(ws) THEN ws
    ELSE LET i == CHOOSE j \in 1 .. Len(ws) : ws[j] = id
         IN  [j \in 1 .. Len(ws) - 1 |-> IF j = i THEN ws[Len(ws)] ELSE ws[j]]

\* `for window in remove_windows.iter() { context.windows.remove(window); }`
RECURSIVE RemoveAll(_, _)
RemoveAll(ws, rs) ==
    IF rs = <<>> THEN ws ELSE RemoveAll(remove(ws, Head(rs)), Tail(rs))

\* The context and the locals of Glass::run the closure works on
Loop ==
    [windows |-> windows, focused |-> focused, exit_on_esc |-> exit_on_esc,
     exit |-> exit, remove_windows |-> remove_windows,
     request_window_close |-> request_window_close,
     control_flow |-> control_flow, log |-> log, asked |-> asked,
     created |-> created]

SetLoop(result) ==
    \E c \in {result} :
       /\ windows' = c.windows
       /\ focused' = c.focused
       /\ exit_on_esc' = c.exit_on_esc
       /\ exit' = c.exit
       /\ remove_windows' = c.remove_windows
       /\ request_window_close' = c.request_window_close
       /\ control_flow' = c.control_flow
       /\ log' = c.log
       /\ asked' = c.asked
       /\ created' = c.created

\* A callback of the app that gets `&mut context`: it may call context.exit()
callback(c, name, callsExit) ==
    [c EXCEPT !.log = IF callsExit
                      THEN @ \o <<Called(name, 0), Called("exit", 0)>>
                      ELSE Append(@, Called(name, 0)),
              !.exit = (@ \/ callsExit)]

\* self.app.input(&mut context, event_loop, &event): the app may also call
\* context.create_window(), which adds a window of a new id
input(c, callsExit, creates, focus, esc) ==
    LET d == callback(c, "input", callsExit)
        id == c.created + 1
    IN  IF creates
        THEN [d EXCEPT !.created = id,
                       !.windows = Append(@, id),
                       !.focused = [@ EXCEPT ![id] = focus],
                       !.exit_on_esc = [@ EXCEPT ![id] = esc],
                       !.log = Append(@, Called("create_window", id))]
        ELSE d

\* The Escape key without the check of is_synthetic
ClosesOnKey_Synthetic(c, id, we) ==
    /\ we.key # "None"
    /\ c.exit_on_esc[id]
    /\ c.focused[id]
    /\ we.key = "Escape"
    /\ we.pressed

\* The Escape key closes the window
ClosesOnKey(c, id, we) ==
    /\ we.key # "None"
    /\ ~we.is_synthetic
    /\ c.exit_on_esc[id]
    /\ c.focused[id]
    /\ we.key = "Escape"
    /\ we.pressed

\* The arm Event::WindowEvent of the match
window_event(c, id, we) ==
    LET closes == \/ we.kind = "CloseRequested"
                  \/ we.kind = "KeyboardInput" /\ ClosesOnKey(c, id, we)
        configures == \/ we.kind = "Resized" /\ ~we.empty
                      \/ we.kind = "ScaleFactorChanged"
        d == [c EXCEPT !.log = Append(@, Called("get_mut", id))]
    IN  IF id \in Ids(c.windows)
        THEN [d EXCEPT
                !.request_window_close = (@ \/ closes),
                !.remove_windows = IF closes THEN Append(@, id) ELSE @,
                !.asked = IF closes THEN @ \cup {id} ELSE @,
                !.focused = IF we.kind = "Focused"
                            THEN [@ EXCEPT ![id] = we.has_focus]
                            ELSE @,
                !.log = IF configures
                        THEN Append(@, Called("configure_surface", id))
                        ELSE @]
        ELSE d

\* The exit decided on context.exit alone
exits_OnFlagOnly(c) == c.exit

\* `if context.windows.is_empty() || context.exit`
exits(c) == c.windows = <<>> \/ c.exit

\* The arm Event::MainEventsCleared up to the render loop: app.update, then
\* the windows asked to close are removed, then the loop is told to exit and
\* app.end runs when no window is left or exit is set
main_events_cleared(c, callsExit) ==
    LET d == callback(c, "update", callsExit)
        e == [d EXCEPT !.windows = RemoveAll(@, d.remove_windows),
                       !.remove_windows = <<>>,
                       !.request_window_close = FALSE]
    IN  IF d.request_window_close \/ d.exit
        THEN IF exits(e)
             THEN [e EXCEPT !.control_flow = "exit",
                            !.log = Append(@, Called("end", 0))]
             ELSE e
        ELSE d

\* The state when event_loop.run is entered: GlassContext::new has created the
\* windows of the config and app.start has run (it may have called exit())
InitLoop ==
    /\ NewGrid(0, 0)
    /\ \E n \in 0 .. MaxWindows :
          /\ windows = [i \in 1 .. n |-> i]
          /\ created = n
    /\ focused \in [WindowIds -> BOOLEAN]
    /\ exit_on_esc \in [WindowIds -> BOOLEAN]
    /\ \A id \in WindowIds : id > created => ~focused[id] /\ ~exit_on_esc[id]
    /\ exit \in BOOLEAN
    /\ remove_windows = <<>>
    /\ request_window_close = FALSE
    /\ control_flow = "poll"
    /\ at = "wait"
    /\ cursor = 0
    /\ log = <<>>
    /\ asked = {}
    /\ delivered = 0

\* The closure going straight to the match, without app.input
Deliver_NoInput(callsExit, creates, focus, esc) == [Loop EXCEPT !.log = <<>>]

\* winit calls the closure with an event: the closure starts with
\* control_flow.set_poll(), which winit ignores once exit was set, and with
\* app.input
Deliver(callsExit, creates, focus, esc) ==
    input([Loop EXCEPT !.log = <<>>], callsExit, creates, focus, esc)

Delivers(creates) ==
    /\ at = "wait"
    /\ delivered < MaxEvents
    /\ creates => created < MaxWindows
    /\ delivered' = delivered + 1

\* The closure on a window event
OnWindowEvent(id, we, callsExit, creates, focus, esc) ==
    /\ Delivers(creates)
    /\ control_flow = "poll"
    /\ SetLoop(window_event(Deliver(callsExit, creates, focus, esc), id, we))
    /\ UNCHANGED <<at, cursor, gridVars>>

\* The closure on an event of the arm `_ => {}`; LoopDestroyed is the event
\* that follows control_flow.set_exit() and the last one
OnOtherEvent(callsExit, creates, focus, esc) ==
    /\ Delivers(creates)
    /\ SetLoop(Deliver(callsExit, creates, focus, esc))
    /\ at' = IF control_flow = "exit" THEN "done" ELSE "wait"
    /\ UNCHANGED <<cursor, gridVars>>

\* The closure on MainEventsCleared, up to the render loop
OnMainEventsCleared(callsExit, creates, focus, esc, updateCallsExit) ==
    /\ Delivers(creates)
    /\ control_flow = "poll"
    /\ SetLoop(main_events_cleared(Deliver(callsExit, creates, focus, esc),
                                   updateCallsExit))
    /\ at' = "render"
    /\ cursor' = 1
    /\ UNCHANGED gridVars

\* What window.surface().get_current_texture() returns: a frame, an error the
\* loop passes over (Timeout, Outdated, Lost), or OutOfMemory
Frames == {"Ok", "Err", "OutOfMemory"}

\* One pass of `for (_, window) in context.windows.iter()`
RenderWindow(frame) ==
    /\ at = "render"
    /\ cursor <= Len(windows)
    /\ LET w == windows[cursor]
       IN  CASE frame = "Ok" ->
                  /\ log' = log \o <<Called("render", w),
                                     Called("post_processing", w),
                                     Called("submit", w),
                                     Called("present", w),
                                     Called("after_render", w),
                                     Called("request_redraw", w)>>
                  /\ cursor' = cursor + 1
                  /\ at' = at
             [] frame = "Err" ->
                  /\ log' = Append(log, Called("request_redraw", w))
                  /\ cursor' = cursor + 1
                  /\ at' = at
             [] frame = "OutOfMemory" ->
                  /\ at' = "panic"
                  /\ UNCHANGED <<log, cursor>>
    /\ UNCHANGED <<windows, focused, exit_on_esc, exit, remove_windows,
                   request_window_close, control_flow, asked, created,
                   delivered, gridVars>>

\* self.app.end_of_frame(&mut context), which ends the closure
EndOfFrame(callsExit) ==
    /\ at = "render"
    /\ cursor > Len(windows)
    /\ SetLoop(callback(Loop, "end_of_frame", callsExit))
    /\ at' = "wait"
    /\ cursor' = 0
    /\ UNCHANGED <<delivered, gridVars>>

\* The app may call exit() in every callback that gets `&mut context` and
\* create_window() in app.input; the exploration lets app.input do so on
\* MainEventsCleared (exit) and on events of the arm `_` of the match only
NextLoop ==
    \/ \E id \in WindowIds, we \in WindowEvents :
          OnWindowEvent(id, we, FALSE, FALSE, FALSE, FALSE)
    \/ \E callsExit, creates \in BOOLEAN :
          \E focus, esc \in (IF creates THEN BOOLEAN ELSE {FALSE}) :
             OnOtherEvent(callsExit, creates, focus, esc)
    \/ \E callsExit, updateCallsExit \in BOOLEAN :
          OnMainEventsCleared(callsExit, FALSE, FALSE, FALSE, updateCallsExit)
    \/ \E frame \in Frames : RenderWindow(frame)
    \/ \E callsExit \in BOOLEAN : EndOfFrame(callsExit)

LoopSpec == InitLoop /\ [][NextLoop]_vars

\* ------------------------------------------------------------- claims
\* Storage index and pixel offset of the logical position (x, y), as the
\* coordinate mapping of the grid states them
CellAt(x, y) == (height - y - 1) * width + x

PixelAt(x, y) == (height - y - 1) * width + x

\* C1: for every grid size and in-bounds (x, y), draw_sand(x, y, c) stores c at
\* index (height - y - 1) * width + x, writes c's colour to the pixel at column
\* x, row height - y - 1, sets the dirty flag, and changes no other cell or
\* pixel.
C1_PaintInBounds ==
    [][lastOp' = "draw_sand" =>
       \A x \in -1 .. width, y \in -1 .. height, c \in Sands :
          (DrawSand(x, y, c) /\ 0 <= x /\ x < width /\ 0 <= y /\ y < height)
          => /\ data'[CellAt(x, y)] = c
             /\ rgba'[PixelAt(x, y)] = to_srgba_unmultiplied(c.color)
             /\ changed' = TRUE
             /\ \A i \in Cells \ {CellAt(x, y)} : data'[i] = data[i]
             /\ \A i \in Cells \ {PixelAt(x, y)} : rgba'[i] = rgba[i]
             /\ DOMAIN data' = Cells /\ DOMAIN rgba' = Cells]_vars

\* C1 witness: on a 2x2 grid draw_sand has stored a grain at logical (1, 1),
\* storage index 1, with its pixel, and set the flag.
C1_Witness ==
    /\ width = 2 /\ height = 2
    /\ lastOp = "draw_sand"
    /\ data[1] = [sand |-> "Sand", color |-> "sandB"]
    /\ rgba[1] = <<168, 143, 89, 255>>
    /\ changed

\* C2: for every (x, y) outside the grid (negative coordinates included),
\* draw_sand(x, y, c) leaves the cells, the pixels and the dirty flag as they
\* were.
C2_PaintOutOfBounds ==
    [][lastOp' = "draw_sand" =>
       \A x \in -1 .. width, y \in -1 .. height, c \in Sands :
          (DrawSand(x, y, c) /\ ~(0 <= x /\ x < width /\ 0 <= y /\ y < height))
          => UNCHANGED <<data, rgba, changed>>]_vars

\* C2 witness: draw_sand was the last call, on a grid with cells, and the flag
\* is still clear although nothing was uploaded: the call was out of bounds.
C2_Witness ==
    /\ lastOp = "draw_sand"
    /\ NumCells > 0
    /\ ~changed
    /\ uploads = 0

C4_SyncUploadsOnce ==
    [][/\ (data' # data \/ rgba' # rgba) => changed'
       /\ (changed /\ ~UpdateTexture) => changed'
       /\ (UpdateTexture /\ changed)
          => /\ uploads' = uploads + 1
             /\ texture' = rgba
             /\ DOMAIN texture' = Cells
             /\ ~changed'
       /\ (UpdateTexture /\ syncsInRow >= 1)
          => uploads' = uploads /\ texture' = texture]_vars

\* C4 witness: two update_texture calls in a row after a paint: one upload in
\* all, of a buffer that is not blank.
C4_Witness ==
    /\ syncsInRow = 2
    /\ calls.paint = 1
    /\ uploads = 1
    /\ \E i \in Cells : texture[i] # BlankPixel

\* C5: whenever the dirty flag is clear, the pixel buffer equals the buffer of
\* the most recent upload (the initial buffer if there was none).
C5_CleanMeansUploaded == ~changed => rgba = texture

\* C5 witness: the flag is clear after an upload of a painted buffer.
C5_Witness ==
    /\ ~changed
    /\ uploads = 1
    /\ \E i \in Cells : rgba[i] # BlankPixel

\* round(distance((x, y), (cx, cy))) < round(radius), without square roots:
\* round(d) < R iff d < R - 1/2, and round(radius) is the R with
\* R - 1/2 <= radius < R + 1/2 (a radius below 1/2 rounds to 0 or less, and
\* no distance rounds below 0)
InDisc(x, y, cx, cy, radius2) ==
    /\ radius2 >= 1
    /\ LET R == CHOOSE k \in 0 .. radius2 :
                   2 * k - 1 <= radius2 /\ radius2 < 2 * k + 1
           d2 == (x - cx) * (x - cx) + (y - cy) * (y - cy)
       IN  4 * d2 < (2 * R - 1) * (2 * R - 1)

\* C6: draw_sand_radius(cx, cy, m, r) gives material m to exactly the cells
\* (x, y) of the grid with round(distance((x, y), (cx, cy))) < round(r): the
\* scanned box misses none of them, and every other cell is unchanged.
C6_PaintsRoundedDisc ==
    [][lastOp' = "draw_sand_radius" =>
       \A x \in 0 .. width - 1, y \in 0 .. height - 1 :
          IF InDisc(x, y, lastArgs'[1], lastArgs'[2], lastArgs'[4])
          THEN data'[CellAt(x, y)].sand = lastArgs'[3]
          ELSE data'[CellAt(x, y)] = data[CellAt(x, y)]]_vars

\* C6 witness: radius 1.5 around the corner (0, 0) of a 3x3 grid painted the
\* four cells within rounded distance 1 and left (2, 0), at distance 2, and
\* the rest empty.
C6_Witness ==
    /\ width = 3 /\ height = 3
    /\ lastOp = "draw_sand_radius"
    /\ lastArgs = <<0, 0, "Sand", 3>>
    /\ \A x \in 0 .. 2, y \in 0 .. 2 :
          data[CellAt(x, y)].sand = IF x <= 1 /\ y <= 1 THEN "Sand" ELSE "Empty"

\* ------------------------------------------------- claims about simulate
\* The cell the step just taken scanned, and the cells below it
StepX == lastStep'.x

StepY == lastStep'.y

\* The step just taken is an iteration of the loops of simulate() on a grain
\* that is not in the bottom row
ScansGrain ==
    /\ pc = "simulate"
    /\ lastStep'.kind # "none"
    /\ data[CellAt(StepX, StepY)].sand # "Empty"
    /\ StepY > 0

\* The step moved the scanned grain to (tx, ty) and changed nothing else
MovedTo(tx, ty) ==
    /\ data'[CellAt(tx, ty)] = data[CellAt(StepX, StepY)]
    /\ data'[CellAt(StepX, StepY)].sand = "Empty"
    /\ \A i \in Cells \ {CellAt(tx, ty), CellAt(StepX, StepY)} :
          data'[i] = data[i]

\* A 3x3 cell array with fresh grains on the given logical positions
Grains3x3(S) ==
    [i \in 0 .. 8 |->
       IF <<i % 3, 2 - (i \div 3)>> \in S
       THEN from_type("Sand", i % 3, 2 - (i \div 3))
       ELSE EmptySand]

\* The simulate() that started from the cells `start` of a 3x3 grid is over
Simulated3x3(start) ==
    /\ width = 3 /\ height = 3
    /\ lastOp = "simulate"
    /\ pc = "idle"
    /\ startData = start

\* C7: a grain at (x, y), y > 0, whose cell below is empty when it is scanned
\* moves to (x, y - 1) and leaves (x, y) empty, and no random sample is drawn;
\* a lone grain at (1, 1) of a 3x3 grid ends at (1, 0) whatever the samples.
C7_FallsStraight ==
    /\ [][(ScansGrain /\ data[CellAt(StepX, StepY - 1)].sand = "Empty")
          => MovedTo(StepX, StepY - 1) /\ drawn' = drawn]_vars
    /\ [](Simulated3x3(Grains3x3({<<1, 1>>}))
          => /\ drawn = <<>>
             /\ data = [Grains3x3({}) EXCEPT ![CellAt(1, 0)] =
                                               from_type("Sand", 1, 1)])

\* C7 witness: the lone grain of the 3x3 example has come down to (1, 0).
C7_Witness ==
    /\ Simulated3x3(Grains3x3({<<1, 1>>}))
    /\ data[7].sand = "Sand"
    /\ data[4].sand = "Empty"

\* The scanned grain has an occupied cell below it, so a sample is drawn
Blocked ==
    /\ ScansGrain
    /\ data[CellAt(StepX, StepY - 1)].sand # "Empty"

Sample == lastStep'.p

LeftFree == StepX > 0 /\ data[CellAt(StepX - 1, StepY - 1)].sand = "Empty"

RightFree ==
    StepX + 1 < width /\ data[CellAt(StepX + 1, StepY - 1)].sand = "Empty"

Stays == data' = data

\* The cells of the diagonal example: grains at (1, 1), (1, 0) and (2, 0)
DiagonalExample == Grains3x3({<<1, 1>>, <<1, 0>>, <<2, 0>>})

\* C8: for a grain at (x, y), y > 0, whose cell below is occupied when it is
\* scanned, one sample is drawn; if it is > 0.5, x > 0 and (x - 1, y - 1) is
\* empty the grain moves to (x - 1, y - 1); if it is <= 0.5 and the down-right
\* neighbour is absent or occupied the grain stays.  On a 3x3 grid with grains
\* at (1, 1), (1, 0) and (2, 0) the grain of (1, 1) ends at (0, 0) for a sample
\* > 0.5 and stays otherwise.
C8_LeftDiagonal ==
    /\ [][Blocked
          => /\ drawn' = Append(drawn, Sample) /\ Sample \in Samples
             /\ (Sample > 5 /\ LeftFree) => MovedTo(StepX - 1, StepY - 1)
             /\ (Sample <= 5 /\ ~RightFree) => Stays]_vars
    /\ [](Simulated3x3(DiagonalExample)
          => /\ Len(drawn) = 1
             /\ data = IF drawn[1] > 5
                       THEN [DiagonalExample EXCEPT
                               ![CellAt(1, 1)] = EmptySand,
                               ![CellAt(0, 0)] = from_type("Sand", 1, 1)]
                       ELSE DiagonalExample)

\* C8 witness: in the example the sample was 0.6 and the grain of (1, 1) is at
\* (0, 0).
C8_Witness ==
    /\ Simulated3x3(DiagonalExample)
    /\ drawn = <<6>>
    /\ data[6] = from_type("Sand", 1, 1)
    /\ data[4].sand = "Empty"

\* C9 as claimed: whenever the left-diagonal move does not apply (sample <=
\* 0.5, or no down-left neighbour, or down-left occupied) and the down-right
\* neighbour exists and is empty, the grain moves to (x + 1, y - 1); it stays
\* only if neither diagonal move applies.
C9_RightWheneverLeftFails ==
    [][Blocked
       => /\ (~(Sample > 5 /\ LeftFree) /\ RightFree)
                => MovedTo(StepX + 1, StepY - 1)
          /\ Stays => (~(Sample > 5 /\ LeftFree) /\ ~RightFree)]_vars

\* C9 as amended: the sample picks one diagonal.  If the sample is <= 0.5 or
\* there is no down-left neighbour, the grain moves to (x + 1, y - 1) when that
\* neighbour exists and is empty and stays otherwise; if the sample is > 0.5
\* and a down-left neighbour exists, the grain moves there when it is empty and
\* stays when it is occupied, whatever the down-right neighbour holds.
C9_RightOnlyWhenPicked ==
    [][Blocked
       => /\ ((Sample <= 5 \/ StepX = 0) /\ RightFree)
                => MovedTo(StepX + 1, StepY - 1)
          /\ ((Sample <= 5 \/ StepX = 0) /\ ~RightFree) => Stays
          /\ (Sample > 5 /\ StepX > 0 /\ LeftFree)
                => MovedTo(StepX - 1, StepY - 1)
          /\ (Sample > 5 /\ StepX > 0 /\ ~LeftFree) => Stays]_vars

\* C9 witness: a grain drew 0.6, found its down-left neighbour occupied and
\* stayed, with its down-right neighbour empty.
C9_Witness ==
    /\ lastStep.kind = "stay"
    /\ lastStep.p = 6
    /\ lastStep.x > 0
    /\ lastStep.x + 1 < width
    /\ data[CellAt(lastStep.x + 1, lastStep.y - 1)].sand = "Empty"

\* C10: during and after a simulate() every grain has moved at most once:
\* it is the cell that was at its starting position, at most one row lower
\* and at most one column aside, and exactly the tracked grains are on the
\* grid.
C10_OneMovePerStep ==
    lastOp = "simulate" =>
       \A i \in Cells :
          LET x == i % width
              y == height - 1 - (i \div width)
              t == track[i]
          IN  /\ (t # <<>>) <=> (data[i].sand # "Empty")
              /\ t # <<>> =>
                    /\ t[3] \in {0, 1}
                    /\ t[2] - y = t[3]
                    /\ (x - t[1]) \in {0 - t[3], 0, t[3]}
                    /\ data[i] = startData[CellAt(t[1], t[2])]

\* C10 witness: the lone grain of (1, 2) of a 3x3 grid fell one row, to (1, 1),
\* and was left there with the cell below it empty.
C10_Witness ==
    /\ Simulated3x3(Grains3x3({<<1, 2>>}))
    /\ track[4] = <<1, 2, 1>>
    /\ data[7].sand = "Empty"

\* C11: simulate() never moves a grain of the bottom row, never moves a grain
\* of column 0 to its left diagonal nor a grain of the last column to its
\* right diagonal, and every coordinate an iteration hands to index or to
\* draw_sand lies in [0, width) x [0, height).
C11_EdgePolicy ==
    /\ [][(pc = "simulate" /\ lastStep'.kind # "none")
          => /\ StepY = 0 => Stays /\ lastStep'.kind = "skip"
             /\ StepX = 0 => lastStep'.kind # "left"
             /\ StepX = width - 1 => lastStep'.kind # "right"
             /\ \A c \in lastStep'.touched :
                   /\ 0 <= c[1] /\ c[1] < width
                   /\ 0 <= c[2] /\ c[2] < height]_vars
    /\ [](lastOp = "simulate" =>
            \A i \in Cells :
               track[i] # <<>> =>
                  /\ track[i][2] = 0 => track[i][3] = 0
                  /\ track[i][1] = 0 => i % width \in {0, 1}
                  /\ track[i][1] = width - 1
                        => i % width \in {width - 1, width - 2})

\* C11 witness: a grain of column 0, above an occupied cell, drew 0.6, the
\* sample of the left diagonal, and moved to the right diagonal; the grain
\* that was below it, in the bottom row, has not moved.
C11_Witness ==
    /\ lastStep.kind = "right"
    /\ lastStep.x = 0
    /\ lastStep.p = 6
    /\ lastStep.y = 1
    /\ lastStep.touched = {<<0, 1>>, <<0, 0>>, <<1, 0>>}
    /\ track[CellAt(0, 0)] = <<0, 0, 0>>

\* No grain has left its starting position in the current/last simulate()
NoGrainMoved == \A i \in Cells : track[i] # <<>> => track[i][3] = 0

\* C12: as long as a simulate() has moved no grain (none on the grid, or all
\* blocked or in the bottom row), the cells, the pixels and the dirty flag are
\* as they were when it was called; if the flag was clear then, the
\* update_texture that follows uploads nothing.
C12_NoMoveNoChange ==
    /\ []((lastOp = "simulate" /\ NoGrainMoved)
          => /\ data = startData
             /\ \A i \in Cells :
                   rgba[i] = to_srgba_unmultiplied(startData[i].color)
             /\ changed = startChanged)
    /\ [][(lastOp = "simulate" /\ lastStep'.kind \in {"skip", "stay"})
          => UNCHANGED <<data, rgba, changed>>]_vars
    /\ [][(UpdateTexture /\ lastOp = "simulate" /\ NoGrainMoved
           /\ ~startChanged)
          => uploads' = uploads /\ texture' = texture]_vars

\* C12 witness: a simulate() on a clean grid one column wide, a grain on top
\* of a grain, is over: the upper grain drew a sample and stayed, and the flag
\* is still clear.
C12_Witness ==
    /\ width = 1 /\ height = 2
    /\ lastOp = "simulate"
    /\ pc = "idle"
    /\ lastStep.kind = "stay"
    /\ Len(drawn) = 1
    /\ ~startChanged
    /\ ~changed
    /\ uploads = 1
    /\ data = startData

\* C13 as claimed: no call on the grid ends in a failure, whatever the size
\* of the grid (0 and 1 included) and whatever the arguments: draw_sand,
\* draw_sand_radius, simulate and update_texture never panic.
C13_NoOperationFails == pc # "panic"

\* ------------------------------------------------- claims about Glass::run
\* Where the history of the current event holds a call of the given name
Pos(name) == {i \in 1 .. Len(log) : log[i][1] = name}

Ran(name) == Pos(name) # {}

\* The calls of the render loop for one window, in the order of the closure
RenderCalls ==
    <<"render", "post_processing", "submit", "present", "after_render",
      "request_redraw">>

\* The history from position i on holds the six calls of a rendered window w
RenderedAt(i, w) ==
    /\ i + 5 <= Len(log)
    /\ \A k \in 1 .. 6 : log[i + k - 1] = Called(RenderCalls[k], w)

\* The order of the callbacks while an event is handled: app.input comes
\* first; app.update runs at most once and before every call of the render
\* loop; render, post_processing, submit, present and after_render of a window
\* run together and in this order, once per window at most; nothing but an
\* exit() of the app follows end_of_frame; and the closure takes no event
\* before it is done with the last one.
FrameOrder ==
    /\ log # <<>> => log[1] = Called("input", 0) /\ Cardinality(Pos("input")) = 1
    /\ Cardinality(Pos("update")) <= 1
    /\ \A i \in 1 .. Len(log) :
          /\ (\E k \in 1 .. 6 : log[i][1] = RenderCalls[k])
                => \E j \in 1 .. i - 1 : log[j][1] = "update"
          /\ log[i][1] = "render" => RenderedAt(i, log[i][2])
          /\ (\E k \in 2 .. 5 : log[i][1] = RenderCalls[k])
                => \E j \in 1 .. i - 1 :
                      log[j][1] = "render" /\ j + 5 > i
                      /\ RenderedAt(j, log[i][2])
          /\ log[i][1] = "end_of_frame"
                => \A j \in i + 1 .. Len(log) : log[j][1] = "exit"
    /\ \A w \in WindowIds :
          /\ Cardinality({i \in Pos("render") : log[i][2] = w}) <= 1
          /\ Cardinality({i \in Pos("request_redraw") : log[i][2] = w}) <= 1
    /\ at = "render" => Ran("update") /\ ~Ran("end_of_frame")

\* The windows had their turn in the order of the context, and end_of_frame
\* ran once, after them
FrameDone ==
    /\ Cardinality(Pos("end_of_frame")) = 1
    /\ LET turns == SelectSeq(log, LAMBDA c : c[1] = "request_redraw")
       IN  turns = [i \in 1 .. Len(windows) |->
                       Called("request_redraw", windows[i])]

\* C14 as claimed: on every MainEventsCleared, once the closure has left the
\* render loop, end_of_frame has run exactly once, after all windows.
C14_FrameAlwaysEnds ==
    /\ FrameOrder
    /\ (Ran("update") /\ at # "render") => FrameDone

\* C14 as amended: the callbacks run in the claimed order, and on every
\* MainEventsCleared whose closure returns end_of_frame has run exactly once,
\* after all windows; but when get_current_texture reports OutOfMemory the
\* closure panics in the render loop: end_of_frame and the windows after the
\* failing one are left out.
C14_FrameEndsUnlessOutOfMemory ==
    /\ FrameOrder
    /\ (Ran("update") /\ at \in {"wait", "done"}) => FrameDone
    /\ at = "panic"
          => /\ Ran("update") /\ ~Ran("end_of_frame")
             /\ cursor <= Len(windows)
             /\ \A i \in cursor .. Len(windows) :
                   \A j \in 1 .. Len(log) : log[j][2] # windows[i]

\* C14 witness: a frame with two windows is over: window 1 got its frame and
\* was rendered, window 2 got none, end_of_frame ran last.
C14_Witness ==
    /\ at = "wait"
    /\ windows = <<1, 2>>
    /\ log = <<Called("input", 0), Called("update", 0)>>
             \o [k \in 1 .. 6 |-> Called(RenderCalls[k], 1)]
             \o <<Called("request_redraw", 2), Called("end_of_frame", 0)>>

\* The step is the closure on MainEventsCleared, up to the render loop
FrameStarts == at = "wait" /\ at' = "render"

\* C15: on MainEventsCleared the loop is told to exit, and app.end runs, if
\* and only if context.exit is set (after app.update) or a window was asked
\* to close since the last frame and no window is left after the removal;
\* nothing else makes the loop exit, so a context without windows, close
\* requests and exit() calls never exits, and exit() makes the loop exit at
\* the next frame whatever windows are open.
C15_ExitIff ==
    /\ [][/\ FrameStarts
             => /\ (control_flow' = "exit")
                   <=> (exit' \/ (request_window_close /\ windows' = <<>>))
                /\ (control_flow' = "exit")
                   <=> (\E i \in 1 .. Len(log') : log'[i] = Called("end", 0))
          /\ control_flow' # control_flow => FrameStarts
          /\ ~FrameStarts
             => \A i \in 1 .. Len(log') :
                   log'[i][1] = "end" => i <= Len(log) /\ log[i] = log'[i]]_vars
    /\ []((asked = {} /\ ~exit) => control_flow = "poll")

\* C15 witness: exit() made the loop exit, and app.end run, with a window
\* still open that nobody asked to close.
C15_Witness ==
    /\ control_flow = "exit"
    /\ exit
    /\ windows # <<>>
    /\ asked = {}
    /\ Ran("end")

\* The event asks to close its window: CloseRequested, or the Escape key
\* pressed, not synthetic, on a focused window with exit_on_esc
AsksToClose(id, we) ==
    \/ we.kind = "CloseRequested"
    \/ /\ we.kind = "KeyboardInput"
       /\ we.key = "Escape"
       /\ we.pressed
       /\ ~we.is_synthetic
       /\ focused[id]
       /\ exit_on_esc[id]

\* C16: a window is marked for removal only by a CloseRequested event or by
\* a qualifying Escape press for it, while it is in the context; windows leave
\* the context only in the closure on MainEventsCleared, after app.update and
\* before the render loop, and only if marked; no marked window is in the
\* context during the render loop or is rendered; a window event for an id
\* that is not in the context changes nothing but the history.
C16_RemovedOnlyWhenAsked ==
    /\ [][/\ asked' # asked
             => \A id \in WindowIds, we \in WindowEvents :
                   OnWindowEvent(id, we, FALSE, FALSE, FALSE, FALSE)
                   => /\ AsksToClose(id, we)
                      /\ id \in Ids(windows)
                      /\ asked' = asked \cup {id}
          /\ \A w \in Ids(windows) \ Ids(windows') :
                /\ w \in asked
                /\ FrameStarts
                /\ \E i \in 1 .. Len(log') : log'[i] = Called("update", 0)
          /\ (Len(log') >= 2 /\ log'[2][1] = "get_mut" /\ at = "wait"
              /\ log'[2][2] \notin Ids(windows))
             => UNCHANGED <<windows, focused, exit_on_esc, exit,
                            remove_windows, request_window_close,
                            control_flow, asked, created>>]_vars
    /\ [](/\ at = "render" => Ids(windows) \cap asked = {}
          /\ at = "render" => remove_windows = <<>>
          /\ \A i \in 1 .. Len(log) :
                (\E k \in 1 .. 6 : log[i][1] = RenderCalls[k])
                   => log[i][2] \notin asked)

\* C16 witness: window 1 was asked to close and has left the context; the
\* frame that removed it rendered window 2 and the loop goes on.
C16_Witness ==
    /\ at = "wait"
    /\ asked = {1}
    /\ windows = <<2>>
    /\ control_flow = "poll"
    /\ RenderedAt(3, 2)
    /\ Ran("end_of_frame")

\* ------------------------------------- claims about repeated simulate()
\* How many cells of the cell array d hold the grain s
Count(d, s) == Cardinality({i \in DOMAIN d : d[i] = s})

\* The grains: the cells that are not empty
Grains == {s \in Sands : s.sand # "Empty"}

\* The position the step just taken moved the scanned grain to
Target ==
    CASE lastStep'.kind = "below" -> <<StepX, StepY - 1>>
      [] lastStep'.kind = "left" -> <<StepX - 1, StepY - 1>>
      [] lastStep'.kind = "right" -> <<StepX + 1, StepY - 1>>

\* C17: during and after a simulate() the grid holds each grain (material and
\* colour) as many times as when simulate() was called, and every move goes to
\* a position that is empty when the move is made.
C17_ConservesGrains ==
    /\ [](lastOp = "simulate"
          => \A s \in Grains : Count(data, s) = Count(startData, s))
    /\ [][(pc = "simulate" /\ lastStep'.kind \in {"below", "left", "right"})
          => /\ data[CellAt(Target[1], Target[2])].sand = "Empty"
             /\ MovedTo(Target[1], Target[2])]_vars

\* C17 witness: a simulate() that moved three grains is over.
C17_Witness ==
    /\ lastOp = "simulate"
    /\ pc = "idle"
    /\ Cardinality({i \in Cells : track[i] # <<>> /\ track[i][3] = 1}) = 3
    /\ \E s \in Grains : Count(data, s) = 2

RECURSIVE RowSumFrom(_, _)
\* The sum of the row coordinates of the grains in the cells k.. of d
RowSumFrom(d, k) ==
    IF k >= NumCells THEN 0
    ELSE (IF is_empty(d[k].sand) THEN 0 ELSE height - 1 - (k \div width))
         + RowSumFrom(d, k + 1)

\* The sum of the row coordinates of all grains of the cell array d
RowSum(d) == RowSumFrom(d, 0)

\* No grain has an empty position below it, down-left or down-right of it
Settled ==
    \A x \in 0 .. width - 1, y \in 1 .. height - 1 :
        ~is_empty(data[CellAt(x, y)].sand)
        => /\ ~is_empty(data[CellAt(x, y - 1)].sand)
           /\ x = 0 \/ ~is_empty(data[CellAt(x - 1, y - 1)].sand)
           /\ x = width - 1 \/ ~is_empty(data[CellAt(x + 1, y - 1)].sand)

\* C18: during and after a simulate() the sum of the row coordinates of the
\* grains is at most what it was at the call, and smaller once the grid has
\* changed; when simulate() is called again and again with a fair random
\* source, the grid reaches a configuration in which no grain can move and
\* stays in it.
C18_Settles ==
    /\ [](lastOp = "simulate"
          => /\ RowSum(data) <= RowSum(startData)
             /\ data # startData => RowSum(data) < RowSum(startData))
    /\ [][Settled => data' = data]_vars
    /\ <>[]Settled

\* C18 witness: a simulate() that moved a grain is over, and the pile it left,
\* with a grain above the bottom row, is settled.
C18_Witness ==
    /\ lastOp = "simulate"
    /\ pc = "idle"
    /\ data # startData
    /\ Settled
    /\ RowSum(data) > 0
====
